---- MODULE Spec2Model ----
(***************************************************************************)
(* Model of homework.py: the fitness tracker module (InfoMessage,          *)
(* Training, Running, SportsWalking, Swimming, read_package).              *)
(*                                                                         *)
(* Numbers.  Python evaluates the formulas on int and float values.  The   *)
(* model evaluates them exactly, on rationals sign * num / den whose       *)
(* numerator and denominator are unbounded naturals (sequences of limbs,   *)
(* least significant first), in the order in which the source writes the   *)
(* operations.  The rounding error of binary floating point (relative      *)
(* 2^-53 per operation) is therefore abstracted; where it decides an       *)
(* outcome (a value exactly half way between two three-decimal numerals)   *)
(* the model allows both outcomes.  A division by zero yields the          *)
(* exception value, as Python raises ZeroDivisionError for int and float.  *)
(* The raw values are numbers; values of other types and magnitudes that   *)
(* overflow a float are outside the model.                                 *)
(* Source strings are Cyrillic; the model transliterates them to ASCII.    *)
(***************************************************************************)
EXTENDS Integers, Sequences, FiniteSets, TLC

(***************************************************************************)
(* Unbounded naturals: a sequence of limbs in 0..BASE-1, least significant *)
(* first, without leading (last) zero limbs; zero is the empty sequence.   *)
(***************************************************************************)
BASE == 100 * 100

RECURSIVE NNorm(_)
NNorm(a) ==
    IF a = <<>> THEN <<>>
    ELSE IF a[Len(a)] = 0 THEN NNorm(SubSeq(a, 1, Len(a) - 1))
    ELSE a

RECURSIVE NFromInt(_)
NFromInt(i) ==
    IF i = 0 THEN <<>> ELSE <<i % BASE>> \o NFromInt(i \div BASE)

RECURSIVE NAddC(_, _, _)
NAddC(a, b, c) ==
    IF a = <<>> /\ b = <<>> THEN (IF c = 0 THEN <<>> ELSE <<c>>)
    ELSE LET x == IF a = <<>> THEN 0 ELSE Head(a)
             y == IF b = <<>> THEN 0 ELSE Head(b)
             s == x + y + c
         IN  <<s % BASE>> \o NAddC(IF a = <<>> THEN <<>> ELSE Tail(a),
                                   IF b = <<>> THEN <<>> ELSE Tail(b),
                                   s \div BASE)

NAdd(a, b) == NAddC(a, b, 0)

\* a - b - c for a >= b + c
RECURSIVE NSubB(_, _, _)
NSubB(a, b, c) ==
    IF a = <<>> THEN <<>>
    ELSE LET y == IF b = <<>> THEN 0 ELSE Head(b)
             d == Head(a) - y - c
         IN  <<IF d < 0 THEN d + BASE ELSE d>>
             \o NSubB(Tail(a), IF b = <<>> THEN <<>> ELSE Tail(b),
                      IF d < 0 THEN 1 ELSE 0)

NSub(a, b) == NNorm(NSubB(a, b, 0))

\* a * m + c for a limb m
RECURSIVE NMulSmallC(_, _, _)
NMulSmallC(a, m, c) ==
    IF a = <<>> THEN (IF c = 0 THEN <<>> ELSE <<c>>)
    ELSE LET p == Head(a) * m + c
         IN  <<p % BASE>> \o NMulSmallC(Tail(a), m, p \div BASE)

NMulSmall(a, m) == IF m = 0 THEN <<>> ELSE NMulSmallC(a, m, 0)

NShift(a) == IF a = <<>> THEN <<>> ELSE <<0>> \o a

RECURSIVE NMulLong(_, _)
NMulLong(a, b) ==
    IF a = <<>> THEN <<>>
    ELSE NAdd(NMulSmall(b, Head(a)), NShift(NMulLong(Tail(a), b)))

NMul(a, b) ==
    IF a = <<>> \/ b = <<>> THEN <<>>
    ELSE IF a = <<1>> THEN b
    ELSE IF b = <<1>> THEN a
    ELSE IF Len(a) = 1 THEN NMulSmallC(b, a[1], 0)
    ELSE IF Len(b) = 1 THEN NMulSmallC(a, b[1], 0)
    ELSE IF Len(a) <= Len(b) THEN NMulLong(a, b)
    ELSE NMulLong(b, a)

\* -1, 0, 1 as a < b, a = b, a > b
RECURSIVE NCmpFrom(_, _, _)
NCmpFrom(a, b, i) ==
    IF i = 0 THEN 0
    ELSE IF a[i] < b[i] THEN -1
    ELSE IF a[i] > b[i] THEN 1
    ELSE NCmpFrom(a, b, i - 1)

NCmp(a, b) ==
    IF Len(a) < Len(b) THEN -1
    ELSE IF Len(a) > Len(b) THEN 1
    ELSE NCmpFrom(a, b, Len(a))

\* the largest limb t in lo..hi with b * t <= r (b * lo <= r is given)
RECURSIVE NQuotDigit(_, _, _, _)
NQuotDigit(r, b, lo, hi) ==
    IF lo >= hi THEN lo
    ELSE LET mid == (lo + hi + 1) \div 2
         IN  IF NCmp(NMulSmall(b, mid), r) <= 0
             THEN NQuotDigit(r, b, mid, hi)
             ELSE NQuotDigit(r, b, lo, mid - 1)

\* the limb floor(r / b) for r < b * BASE: the leading limbs of r and b
\* bracket it, and the search settles it
NQuot(r, b) ==
    LET n == Len(b)
    IN  IF Len(r) < n THEN 0
        ELSE LET rt == IF Len(r) > n THEN r[n + 1] * BASE + r[n] ELSE r[n]
                 lo == rt \div (b[n] + 1)
                 up == (rt + 1) \div b[n]
                 hi == IF up > BASE - 1 THEN BASE - 1 ELSE up
             IN  NQuotDigit(r, b, lo, hi)

\* long division of a by b # 0, from the most significant limb i down:
\* [q |-> quotient limbs so far (least significant first), r |-> remainder]
RECURSIVE NDivFrom(_, _, _, _, _)
NDivFrom(a, b, i, q, r) ==
    IF i = 0 THEN [q |-> NNorm(q), r |-> r]
    ELSE LET r1 == IF r = <<>> THEN (IF a[i] = 0 THEN <<>> ELSE <<a[i]>>)
                   ELSE <<a[i]>> \o r
             t  == NQuot(r1, b)
         IN  NDivFrom(a, b, i - 1, <<t>> \o q, NSub(r1, NMulSmall(b, t)))

NDivMod(a, b) == NDivFrom(a, b, Len(a), <<>>, <<>>)

\* the decimal digits of a, most significant first (<<0>> for zero)
RECURSIVE NDigitsLow(_)
NDigitsLow(a) ==
    IF a = <<>> THEN <<>>
    ELSE LET x == Head(a)
         IN  NDigitsLow(Tail(a))
             \o <<x \div 1000, (x \div 100) % 10, (x \div 10) % 10, x % 10>>

RECURSIVE StripZeros(_)
StripZeros(d) ==
    IF Len(d) > 1 /\ Head(d) = 0 THEN StripZeros(Tail(d)) ELSE d

NDigits(a) == IF a = <<>> THEN <<0>> ELSE StripZeros(NDigitsLow(a))

\* the natural a sequence of decimal digits (most significant first) denotes
RECURSIVE NFromDigits(_)
NFromDigits(d) ==
    IF d = <<>> THEN <<>>
    ELSE NAdd(NMulSmall(NFromDigits(SubSeq(d, 1, Len(d) - 1)), 10),
              NFromInt(d[Len(d)]))

(***************************************************************************)
(* Numbers: exc is "" for a value sign * num / den (den # 0), or names the *)
(* exception the computation of the value raised.                          *)
(***************************************************************************)
\* num / den with the factors BASE common to both cancelled
RECURSIVE Cancel(_, _)
Cancel(num, den) ==
    IF num = <<>> THEN [num |-> <<>>, den |-> <<1>>]
    ELSE IF Head(num) = 0 /\ Head(den) = 0 THEN Cancel(Tail(num), Tail(den))
    ELSE [num |-> num, den |-> den]

Num(neg, num, den) ==
    LET c == Cancel(num, den)
    IN  [exc |-> "", neg |-> neg /\ num # <<>>, num |-> c.num, den |-> c.den]

Raise(e) == [exc |-> e, neg |-> FALSE, num |-> <<>>, den |-> <<1>>]

Abs(i) == IF i < 0 THEN -i ELSE i

\* the Python literal or input value n / d (d > 0)
Ratio(n, d) == Num(n < 0, NFromInt(Abs(n)), NFromInt(d))

IntNum(i) == Ratio(i, 1)

IsZero(x) == x.num = <<>>

Mul(x, y) ==
    IF x.exc # "" THEN x
    ELSE IF y.exc # "" THEN y
    ELSE Num(x.neg # y.neg, NMul(x.num, y.num), NMul(x.den, y.den))

Div(x, y) ==
    IF x.exc # "" THEN x
    ELSE IF y.exc # "" THEN y
    ELSE IF IsZero(y) THEN Raise("ZeroDivisionError")
    ELSE Num(x.neg # y.neg, NMul(x.num, y.den), NMul(x.den, y.num))

Add(x, y) ==
    IF x.exc # "" THEN x
    ELSE IF y.exc # "" THEN y
    ELSE LET a == NMul(x.num, y.den)
             b == NMul(y.num, x.den)
             d == NMul(x.den, y.den)
         IN  IF x.neg = y.neg THEN Num(x.neg, NAdd(a, b), d)
             ELSE IF NCmp(a, b) >= 0 THEN Num(x.neg, NSub(a, b), d)
             ELSE Num(y.neg, NSub(b, a), d)

Neg(x) == IF x.exc # "" THEN x ELSE Num(~x.neg, x.num, x.den)

\* the same outcome: the same exception, or the same value
Same(x, y) ==
    /\ x.exc = y.exc
    /\ x.exc = "" => /\ x.neg = y.neg
                     /\ NMul(x.num, y.den) = NMul(y.num, x.den)

\* x <= y, for values
Leq(x, y) ==
    LET d == Add(y, Neg(x)) IN ~d.neg

(***************************************************************************)
(* The classes.  An object is a record of its attributes; cls is the name  *)
(* of its class (self.__class__.__name__), on which the methods dispatch.  *)
(***************************************************************************)
M_IN_KM == IntNum(1000)

HOUR_TO_MIN == IntNum(60)

\* Training.LEN_STEP, overridden by Swimming
LEN_STEP(cls) == IF cls = "Swimming" THEN Ratio(138, 100) ELSE Ratio(65, 100)

CALORIES_MEAN_SPEED_MULTIPLIER == IntNum(18)

CALORIES_MEAN_SPEED_SHIFT == Ratio(179, 100)

MULTIPLIER_1_OF_WEIGHT == Ratio(35, 1000)

MULTIPLIER_2_OF_WEIGHT == Ratio(29, 1000)

KMH_TO_MSEC == Ratio(278, 1000)

M_TO_CM == IntNum(100)

CALORIES_MEAN_SPEED_SHIFT_SWM == Ratio(11, 10)

CALORIES_MEAN_SPEED_MULTIPLIER_SWM == IntNum(2)

NoTraining == [cls |-> "None"]

\* the outcome of a call that yields an object: the object, or the exception
Returned(obj) == [exc |-> "", msg |-> "", obj |-> obj]

Failed(e, msg) == [exc |-> e, msg |-> msg, obj |-> NoTraining]

Training_init(cls, action, duration, weight) ==
    [cls |-> cls, action |-> action, duration |-> duration, weight |-> weight]

SportsWalking_init(cls, action, duration, weight, height) ==
    [cls |-> cls, action |-> action, duration |-> duration, weight |-> weight,
     height |-> height]

\* Swimming.__init__ with the two pool attributes assigned crosswise
Swimming_init_swapped(cls, action, duration, weight, length_pool, count_pool) ==
    [cls |-> cls, action |-> action, duration |-> duration, weight |-> weight,
     length_pool |-> count_pool, count_pool |-> length_pool]

Swimming_init(cls, action, duration, weight, length_pool, count_pool) ==
    [cls |-> cls, action |-> action, duration |-> duration, weight |-> weight,
     length_pool |-> length_pool, count_pool |-> count_pool]

\* cls(*data): Python binds the positional values to the parameters of
\* cls.__init__ and raises TypeError when their number differs
New(cls, data) ==
    IF cls = "Swimming" THEN
        IF Len(data) # 5 THEN Failed("TypeError", "")
        ELSE Returned(Swimming_init(cls, data[1], data[2], data[3],
                                    data[4], data[5]))
    ELSE IF cls = "SportsWalking" THEN
        IF Len(data) # 4 THEN Failed("TypeError", "")
        ELSE Returned(SportsWalking_init(cls, data[1], data[2], data[3],
                                         data[4]))
    ELSE
        IF Len(data) # 3 THEN Failed("TypeError", "")
        ELSE Returned(Training_init(cls, data[1], data[2], data[3]))

\* get_distance without the conversion from metres
get_distance_metres(self) ==
    Mul(self.action, LEN_STEP(self.cls))

get_distance(self) ==
    Div(Mul(self.action, LEN_STEP(self.cls)), M_IN_KM)

\* Training.get_mean_speed guarding the division
Training_get_mean_speed_guarded(self) ==
    IF IsZero(self.duration) THEN IntNum(0)
    ELSE Div(get_distance(self), self.duration)

Training_get_mean_speed(self) ==
    Div(get_distance(self), self.duration)

\* Swimming without its own get_mean_speed
Swimming_get_mean_speed_inherited(self) ==
    Div(get_distance(self), self.duration)

Swimming_get_mean_speed(self) ==
    Div(Div(Mul(self.length_pool, self.count_pool), M_IN_KM), self.duration)

get_mean_speed(self) ==
    IF self.cls = "Swimming" THEN Swimming_get_mean_speed(self)
    ELSE Training_get_mean_speed(self)

\* Running.get_spent_calories with the duration left in hours
Running_get_spent_calories_hours(self) ==
    Mul(Div(Mul(Add(Mul(CALORIES_MEAN_SPEED_MULTIPLIER, get_mean_speed(self)),
                    CALORIES_MEAN_SPEED_SHIFT),
                self.weight),
            M_IN_KM),
        self.duration)

Running_get_spent_calories(self) ==
    Mul(Div(Mul(Add(Mul(CALORIES_MEAN_SPEED_MULTIPLIER, get_mean_speed(self)),
                    CALORIES_MEAN_SPEED_SHIFT),
                self.weight),
            M_IN_KM),
        Mul(self.duration, HOUR_TO_MIN))

\* SportsWalking.get_spent_calories with the closing parenthesis before the
\* second term: the duration multiplies that term only
SportsWalking_get_spent_calories_second_term(self) ==
    LET speed_into_ms == Mul(get_mean_speed(self), KMH_TO_MSEC)
        height_into_m == Div(self.height, M_TO_CM)
        duration_into_min == Mul(self.duration, HOUR_TO_MIN)
    IN  Add(Mul(MULTIPLIER_1_OF_WEIGHT, self.weight),
            Mul(Mul(Mul(Div(Mul(speed_into_ms, speed_into_ms), height_into_m),
                        MULTIPLIER_2_OF_WEIGHT),
                    self.weight),
                duration_into_min))

SportsWalking_get_spent_calories(self) ==
    LET speed_into_ms == Mul(get_mean_speed(self), KMH_TO_MSEC)
        height_into_m == Div(self.height, M_TO_CM)
        duration_into_min == Mul(self.duration, HOUR_TO_MIN)
    IN  Mul(Add(Mul(MULTIPLIER_1_OF_WEIGHT, self.weight),
                Mul(Mul(Div(Mul(speed_into_ms, speed_into_ms), height_into_m),
                        MULTIPLIER_2_OF_WEIGHT),
                    self.weight)),
            duration_into_min)

\* Swimming.get_spent_calories without the parentheses around the sum
Swimming_get_spent_calories_unparenthesised(self) ==
    Add(get_mean_speed(self),
        Mul(CALORIES_MEAN_SPEED_SHIFT_SWM,
            Mul(Mul(CALORIES_MEAN_SPEED_MULTIPLIER_SWM, self.weight),
                self.duration)))

Swimming_get_spent_calories(self) ==
    Mul(Add(get_mean_speed(self), CALORIES_MEAN_SPEED_SHIFT_SWM),
        Mul(Mul(CALORIES_MEAN_SPEED_MULTIPLIER_SWM, self.weight),
            self.duration))

get_spent_calories(self) ==
    IF self.cls = "Running" THEN Running_get_spent_calories(self)
    ELSE IF self.cls = "SportsWalking" THEN SportsWalking_get_spent_calories(self)
    ELSE IF self.cls = "Swimming" THEN Swimming_get_spent_calories(self)
    ELSE Raise("NotImplementedError")

\* InfoMessage objects; exc is "" for an object
InfoMessage(training_type, duration, distance, speed, calories) ==
    [exc |-> "", training_type |-> training_type, duration |-> duration,
     distance |-> distance, speed |-> speed, calories |-> calories]

NoInfo(e) ==
    [exc |-> e, training_type |-> "", duration |-> Raise(e),
     distance |-> Raise(e), speed |-> Raise(e), calories |-> Raise(e)]

\* the arguments are evaluated in the order written; the first exception
\* one of them raises leaves show_training_info
show_training_info(self) ==
    LET distance == get_distance(self)
        speed    == get_mean_speed(self)
        calories == get_spent_calories(self)
    IN  IF distance.exc # "" THEN NoInfo(distance.exc)
        ELSE IF speed.exc # "" THEN NoInfo(speed.exc)
        ELSE IF calories.exc # "" THEN NoInfo(calories.exc)
        ELSE InfoMessage(self.cls, self.duration, distance, speed, calories)

(***************************************************************************)
(* InfoMessage.get_message.  The text is a sequence of tokens: the literal *)
(* pieces of the f-string, the type name, and for each {value:.3f} field a *)
(* numeral [sign, int, frac] of decimal digits, most significant first.    *)
(***************************************************************************)
RECURSIVE PadTo(_, _)
PadTo(d, n) == IF Len(d) >= n THEN d ELSE PadTo(<<0>> \o d, n)

\* the numeral of k / 1000 for a natural k: all digits but the last three,
\* a point, the last three digits
Numeral(sign, k) ==
    LET d == PadTo(NDigits(k), 4)
    IN  [sign |-> sign,
         int  |-> SubSeq(d, 1, Len(d) - 3),
         frac |-> SubSeq(d, Len(d) - 2, Len(d))]

\* format(x, '.3f') cutting the digits after the third instead of rounding
Format3_truncated(x) ==
    LET scale == BASE \div (x.den[Len(x.den)] + 1)
        den   == NMulSmall(x.den, scale)
        qr    == NDivMod(NMulSmall(NMulSmall(x.num, 1000), scale), den)
        signs == IF x.neg THEN {"-"}
                 ELSE IF IsZero(x) THEN {"", "-"}
                 ELSE {""}
    IN  {Numeral(sg, qr.q) : sg \in signs}

\* format(x, '.3f'): the nearest multiple of 1/1000.  Python rounds the
\* binary value it holds: a value the exact arithmetic puts half way between
\* two numerals goes either way, and a zero may carry either sign.
Format3(x) ==
    LET scale == BASE \div (x.den[Len(x.den)] + 1)
        den   == NMulSmall(x.den, scale)
        qr    == NDivMod(NMulSmall(NMulSmall(x.num, 1000), scale), den)
        twice == NCmp(NMulSmall(qr.r, 2), den)
        up    == NAdd(qr.q, <<1>>)
        ks    == IF twice < 0 THEN {qr.q}
                 ELSE IF twice > 0 THEN {up}
                 ELSE {qr.q, up}
        signs == IF x.neg THEN {"-"}
                 ELSE IF IsZero(x) THEN {"", "-"}
                 ELSE {""}
    IN  {Numeral(sg, k) : sg \in signs, k \in ks}

get_message(self) ==
    {<<"Tip trenirovki: ", self.training_type,
       "; Dlitelnost: ", duration,
       " ch.; Distantsiya: ", distance,
       " km; Sr. skorost: ", speed,
       " km/ch; Potracheno kkal: ", calories,
       ".">> :
        duration \in Format3(self.duration),
        distance \in Format3(self.distance),
        speed \in Format3(self.speed),
        calories \in Format3(self.calories)}

(***************************************************************************)
(* read_package                                                            *)
(***************************************************************************)
TRAIN_TYPES == [SWM |-> "Swimming", RUN |-> "Running", WLK |-> "SportsWalking"]

\* read_package with the lookup defaulting to Running (TRAIN_TYPES.get)
read_package_default(workout_type, data) ==
    New(IF workout_type \in DOMAIN TRAIN_TYPES THEN TRAIN_TYPES[workout_type]
        ELSE "Running", data)

read_package(workout_type, data) ==
    IF workout_type \notin DOMAIN TRAIN_TYPES
    THEN Failed("ValueError", workout_type \o ": neizvestnyi tip trenirovki")
    ELSE New(TRAIN_TYPES[workout_type], data)

(***************************************************************************)
(* Bounds and the packages a caller may pass.                              *)
(***************************************************************************)
MaxDataLen == 5

MaxReads == 2

Codes == {"SWM", "RUN", "WLK", "XYZ", "run"}

\* the raw values tried at position i of data
Vals(i) ==
    IF i = 1 THEN {IntNum(720), IntNum(9000), IntNum(15000)}
    ELSE IF i = 2 THEN {IntNum(1), IntNum(0), Ratio(3, 2), IntNum(-2)}
    ELSE IF i = 3 THEN {IntNum(75), IntNum(80)}
    ELSE IF i = 4 THEN {IntNum(25), IntNum(180), IntNum(0)}
    ELSE IF i = 5 THEN {IntNum(40)}
    ELSE {IntNum(1)}

RECURSIVE Lists(_)
Lists(n) ==
    IF n = 0 THEN {<<>>}
    ELSE {Append(l, v) : l \in Lists(n - 1), v \in Vals(n)}

Packages == UNION {Lists(n) : n \in 0..MaxDataLen}

(***************************************************************************)
(* State: a caller holding one package, the object read_package gave it,   *)
(* and what its calls returned.  The history variables first and last      *)
(* follow the calls of one method, watched; every method is the watched    *)
(* one in some behaviour.                                                  *)
(***************************************************************************)
VARIABLES
    workout_type,   \* the package: the code
    data,           \* the package: the raw values
    reads,          \* the number of read_package calls made
    training,       \* the object the last successful read_package returned
    constructed,    \* history: the object as the first read_package built it
    raised,         \* the exception the last call let through (exc "" if none)
    info,           \* the InfoMessage the last show_training_info returned
    message,        \* the text the last get_message returned
    watched,        \* history: the method first and last are about
    first,          \* history: the outcome of the first call of watched, and
    last            \*   the read that built its object; the same, last call

vars == <<workout_type, data, reads, training, constructed, raised,
          info, message, watched, first, last>>

Methods == {"get_distance", "get_mean_speed", "get_spent_calories",
            "show_training_info"}

NoException == [exc |-> "", msg |-> ""]

NotCalled == [rec |-> 0, out |-> [exc |-> "not called"]]

Init ==
    /\ workout_type \in Codes
    /\ data \in Packages
    /\ reads = 0
    /\ training = NoTraining
    /\ constructed = NoTraining
    /\ raised = NoException
    /\ info = NoInfo("not called")
    /\ message = <<>>
    /\ watched \in Methods
    /\ first = NotCalled
    /\ last = NotCalled

\* training = read_package(workout_type, data)
ReadPackage ==
    /\ reads < MaxReads
    /\ LET r == read_package(workout_type, data)
       IN  /\ training' = IF r.exc = "" THEN r.obj ELSE training
           /\ constructed' = IF r.exc = "" /\ constructed = NoTraining
                             THEN r.obj ELSE constructed
           /\ raised' = [exc |-> r.exc, msg |-> r.msg]
    /\ reads' = reads + 1
    /\ UNCHANGED <<workout_type, data, info, message,
                   watched, first, last>>

\* the bookkeeping of a call of method m on training with outcome out
Called(m, out) ==
    /\ raised' = [exc |-> out.exc, msg |-> ""]
    /\ IF m = watched
       THEN /\ last' = [rec |-> reads, out |-> out]
            /\ first' = IF first.rec = 0 THEN [rec |-> reads, out |-> out]
                        ELSE first
       ELSE UNCHANGED <<first, last>>

GetDistance ==
    /\ training # NoTraining
    /\ Called("get_distance", get_distance(training))
    /\ UNCHANGED <<workout_type, data, reads, training, constructed,
                   info, message, watched>>

GetMeanSpeed ==
    /\ training # NoTraining
    /\ Called("get_mean_speed", get_mean_speed(training))
    /\ UNCHANGED <<workout_type, data, reads, training, constructed,
                   info, message, watched>>

\* get_spent_calories converting self.duration to minutes in place
GetSpentCalories_in_place ==
    /\ training # NoTraining
    /\ Called("get_spent_calories", get_spent_calories(training))
    /\ training' = [training EXCEPT !.duration = Mul(@, HOUR_TO_MIN)]
    /\ UNCHANGED <<workout_type, data, reads, constructed,
                   info, message, watched>>

GetSpentCalories ==
    /\ training # NoTraining
    /\ Called("get_spent_calories", get_spent_calories(training))
    /\ UNCHANGED <<workout_type, data, reads, training, constructed,
                   info, message, watched>>

\* info = training.show_training_info()
ShowTrainingInfo ==
    /\ training # NoTraining
    /\ LET r == show_training_info(training)
       IN  /\ Called("show_training_info", r)
           /\ info' = IF r.exc = "" THEN r ELSE info
    /\ UNCHANGED <<workout_type, data, reads, training, constructed,
                   message, watched>>

\* message = info.get_message()
GetMessage ==
    /\ info.exc = ""
    /\ message' \in get_message(info)
    /\ raised' = NoException
    /\ UNCHANGED <<workout_type, data, reads, training, constructed,
                   info, watched, first, last>>

Next ==
    \/ ReadPackage
    \/ GetDistance
    \/ GetMeanSpeed
    \/ GetSpentCalories
    \/ ShowTrainingInfo
    \/ GetMessage

Spec == Init /\ [][Next]_vars

(***************************************************************************)
(* Vocabulary of the properties.                                           *)
(***************************************************************************)
KnownCodes == {"SWM", "RUN", "WLK"}

\* the number of positional values the constructor of a code's class takes
Arity(code) ==
    IF code = "SWM" THEN 5 ELSE IF code = "WLK" THEN 4 ELSE 3

VariantOf(code) ==
    IF code = "SWM" THEN "Swimming"
    ELSE IF code = "WLK" THEN "SportsWalking"
    ELSE "Running"

Positive(x) == x.exc = "" /\ ~x.neg /\ ~IsZero(x)

\* the latest call of method m, the watched one, has returned or raised
Acted(m) == watched = m /\ last.rec # 0 /\ training # NoTraining

ExampleRUN ==
    workout_type = "RUN" /\ data = <<IntNum(15000), IntNum(1), IntNum(75)>>

ExampleWLK ==
    /\ workout_type = "WLK"
    /\ data = <<IntNum(9000), IntNum(1), IntNum(75), IntNum(180)>>

ExampleSWM ==
    /\ workout_type = "SWM"
    /\ data = <<IntNum(720), IntNum(1), IntNum(80), IntNum(25), IntNum(40)>>

\* the step length in metres of a class
StepLength(cls) ==
    IF cls = "Swimming" THEN Ratio(138, 100) ELSE Ratio(65, 100)

\* show_training_info divides by duration, and for walking by height
DividesByZero(self) ==
    \/ IsZero(self.duration)
    \/ self.cls = "SportsWalking" /\ IsZero(self.height)

\* two outcomes of show_training_info agree
SameInfo(a, b) ==
    /\ a.exc = b.exc
    /\ a.training_type = b.training_type
    /\ Same(a.duration, b.duration)
    /\ Same(a.distance, b.distance)
    /\ Same(a.speed, b.speed)
    /\ Same(a.calories, b.calories)

Digits(d) == \A i \in DOMAIN d : d[i] \in 0..9

NumeralValue(n) ==
    Num(n.sign = "-", NFromDigits(n.int \o n.frac), NFromInt(1000))

\* numeral n is x rounded to three decimal places: a sign, at least one
\* integer digit without a leading zero, three decimals, and a value within
\* half a thousandth of x
Rounded(n, x) ==
    /\ n.sign \in {"", "-"}
    /\ n.sign = "-" => x.neg \/ IsZero(x)
    /\ x.neg => n.sign = "-"
    /\ Len(n.int) >= 1 /\ Digits(n.int)
    /\ Len(n.int) > 1 => n.int[1] # 0
    /\ Len(n.frac) = 3 /\ Digits(n.frac)
    /\ LET diff == Add(NumeralValue(n), Neg(x))
       IN  Leq(Mul(Num(FALSE, diff.num, diff.den), IntNum(2000)), IntNum(1))

Renders(text, i) ==
    /\ Len(text) = 11
    /\ text[1] = "Tip trenirovki: "
    /\ text[2] = i.training_type
    /\ text[3] = "; Dlitelnost: "
    /\ Rounded(text[4], i.duration)
    /\ text[5] = " ch.; Distantsiya: "
    /\ Rounded(text[6], i.distance)
    /\ text[7] = " km; Sr. skorost: "
    /\ Rounded(text[8], i.speed)
    /\ text[9] = " km/ch; Potracheno kkal: "
    /\ Rounded(text[10], i.calories)
    /\ text[11] = "."

(***************************************************************************)
(* C1.  read_package fails with the unknown-workout-type error for every   *)
(* code that is not SWM, RUN or WLK, whatever data is: the ValueError      *)
(* reaches the caller and no object is constructed or returned.            *)
(***************************************************************************)
C1_UnknownTypeFails ==
    (workout_type \notin KnownCodes /\ reads > 0) =>
        /\ raised.exc = "ValueError"
        /\ raised.msg = workout_type \o ": neizvestnyi tip trenirovki"
        /\ training = NoTraining
        /\ constructed = NoTraining

\* an unknown code with values that would build a Running object
C1_Witness ==
    /\ workout_type = "XYZ"
    /\ data = <<IntNum(15000), IntNum(1), IntNum(75)>>
    /\ reads > 0
    /\ raised.exc = "ValueError"

(***************************************************************************)
(* C2.  For a known code read_package returns an object of the matching    *)
(* class and no other (SWM Swimming, RUN Running, WLK SportsWalking), and  *)
(* the positional values of data become, in order, action, duration,       *)
(* weight, then height for walking, or length_pool and count_pool for      *)
(* swimming.  (Read for a list that holds these values: it returns for     *)
(* every list of that length, and whatever it returns is as stated.)       *)
(***************************************************************************)
C2_MatchingVariant ==
    /\ (reads > 0 /\ workout_type \in KnownCodes
            /\ Len(data) = Arity(workout_type)) => training # NoTraining
    /\ training # NoTraining =>
        /\ workout_type \in KnownCodes
        /\ training.cls = VariantOf(workout_type)
        /\ training.action = data[1]
        /\ training.duration = data[2]
        /\ training.weight = data[3]
        /\ workout_type = "RUN" =>
               DOMAIN training = {"cls", "action", "duration", "weight"}
        /\ workout_type = "WLK" =>
               /\ DOMAIN training =
                      {"cls", "action", "duration", "weight", "height"}
               /\ training.height = data[4]
        /\ workout_type = "SWM" =>
               /\ DOMAIN training = {"cls", "action", "duration", "weight",
                                     "length_pool", "count_pool"}
               /\ training.length_pool = data[4]
               /\ training.count_pool = data[5]

C2_Witness ==
    /\ ExampleSWM
    /\ training # NoTraining
    /\ training.cls = "Swimming"
    /\ training.length_pool = IntNum(25)
    /\ training.count_pool = IntNum(40)

(***************************************************************************)
(* C3.  As claimed: the unknown-workout-type error is the only error; for  *)
(* a code in {SWM, RUN, WLK} read_package raises nothing whatever the list *)
(* of raw values, and no call of read_package followed by                  *)
(* show_training_info fails otherwise.                                     *)
(***************************************************************************)
C3_OnlyUnknownTypeFails ==
    raised.exc # "" => workout_type \notin KnownCodes

(***************************************************************************)
(* C3, amended.  read_package validates no value: for a known code and a   *)
(* list of as many numbers as the class's constructor takes it returns an  *)
(* object whatever the numbers are, and raises TypeError for a list of     *)
(* another length.  The exceptions a caller sees are ValueError (exactly   *)
(* for an unknown code), TypeError (exactly for a known code with a list   *)
(* of the wrong length) and ZeroDivisionError (only from an object whose   *)
(* duration is 0, or whose height is 0 for walking); show_training_info    *)
(* raises ZeroDivisionError exactly on such an object and returns          *)
(* otherwise.                                                              *)
(***************************************************************************)
C3_Failures ==
    /\ raised.exc \in {"", "ValueError", "TypeError", "ZeroDivisionError"}
    /\ reads > 0 =>
        /\ workout_type \notin KnownCodes =>
               raised.exc = "ValueError" /\ training = NoTraining
        /\ (workout_type \in KnownCodes
                /\ Len(data) # Arity(workout_type)) =>
               raised.exc = "TypeError" /\ training = NoTraining
        /\ (workout_type \in KnownCodes
                /\ Len(data) = Arity(workout_type)) =>
               /\ training # NoTraining
               /\ raised.exc \in {"", "ZeroDivisionError"}
               /\ raised.exc = "ZeroDivisionError" => DividesByZero(training)
    /\ Acted("show_training_info") =>
           last.out.exc = IF DividesByZero(training)
                          THEN "ZeroDivisionError" ELSE ""

\* read_package built a running object with duration 0 and
\* show_training_info raised on it
C3_Witness ==
    /\ workout_type = "RUN"
    /\ training # NoTraining
    /\ IsZero(training.duration)
    /\ Acted("show_training_info")
    /\ raised.exc = "ZeroDivisionError"

(***************************************************************************)
(* C4.  get_distance returns action * step_length / 1000 (km), with a step *)
(* length of 0.65 m for Running and SportsWalking and 1.38 m for Swimming: *)
(* 9.750 km for RUN [15000,1,75] and 5.850 km for WLK [9000,1,75,180]; the *)
(* swimming distance depends on action only, not on the pool length or the *)
(* lap count.                                                              *)
(***************************************************************************)
C4_Distance ==
    Acted("get_distance") =>
        /\ Same(last.out,
                Div(Mul(training.action, StepLength(training.cls)),
                    IntNum(1000)))
        /\ ExampleRUN => Same(last.out, Ratio(9750, 1000))
        /\ ExampleWLK => Same(last.out, Ratio(5850, 1000))
        /\ training.cls = "Swimming" =>
               \A lp \in Vals(4), cp \in Vals(5) :
                   Same(get_distance([training EXCEPT !.length_pool = lp,
                                                      !.count_pool = cp]),
                        last.out)

C4_Witness ==
    /\ Acted("get_distance")
    /\ ExampleRUN
    /\ Same(last.out, Ratio(9750, 1000))

(***************************************************************************)
(* C5.  With duration > 0, get_mean_speed returns get_distance() /         *)
(* duration for Running and SportsWalking and pool_length * lap_count /    *)
(* 1000 / duration for Swimming; the swimming mean speed ignores the       *)
(* generic distance, so Swimming objects that differ in action only have   *)
(* the same mean speed and the same calories.                              *)
(***************************************************************************)
C5_MeanSpeed ==
    (Acted("get_mean_speed") /\ Positive(training.duration)) =>
        IF training.cls = "Swimming"
        THEN /\ Same(last.out,
                     Div(Div(Mul(training.length_pool, training.count_pool),
                             IntNum(1000)),
                         training.duration))
             /\ \A a \in Vals(1) :
                    LET other == [training EXCEPT !.action = a]
                    IN  /\ Same(get_mean_speed(other), last.out)
                        /\ Same(get_spent_calories(other),
                                get_spent_calories(training))
        ELSE Same(last.out, Div(get_distance(training), training.duration))

\* a swimming object with a duration other than 1
C5_Witness ==
    /\ Acted("get_mean_speed")
    /\ training.cls = "Swimming"
    /\ training.duration = Ratio(3, 2)
    /\ training.length_pool = IntNum(25)
    /\ last.out.exc = ""

(***************************************************************************)
(* C6.  For a Swimming object with duration > 0, get_spent_calories        *)
(* returns (mean_speed + 1.1) * 2 * weight * duration, mean_speed being    *)
(* the swimming mean speed; for SWM [720,1,80,25,40] the mean speed is     *)
(* 1.0 km/h and the calories are 336.0.                                    *)
(***************************************************************************)
C6_SwimmingCalories ==
    (Acted("get_spent_calories") /\ training.cls = "Swimming"
         /\ Positive(training.duration)) =>
        LET mean_speed ==
                Div(Div(Mul(training.length_pool, training.count_pool),
                        IntNum(1000)),
                    training.duration)
        IN  /\ Same(last.out,
                    Mul(Mul(Mul(Add(mean_speed, Ratio(11, 10)), IntNum(2)),
                            training.weight),
                        training.duration))
            /\ ExampleSWM =>
                   /\ Same(get_mean_speed(training), IntNum(1))
                   /\ Same(last.out, IntNum(336))

C6_Witness ==
    /\ Acted("get_spent_calories")
    /\ ExampleSWM
    /\ Same(last.out, IntNum(336))

(***************************************************************************)
(* C7.  For a Running object with duration > 0, get_spent_calories returns *)
(* (18.0 * mean_speed + 1.79) * weight / 1000 * (duration * 60) with       *)
(* mean_speed = action * 0.65 / 1000 / duration; for RUN [15000,1,75] this *)
(* is 797.805.                                                             *)
(***************************************************************************)
C7_RunningCalories ==
    (Acted("get_spent_calories") /\ training.cls = "Running"
         /\ Positive(training.duration)) =>
        LET mean_speed ==
                Div(Div(Mul(training.action, Ratio(65, 100)), IntNum(1000)),
                    training.duration)
        IN  /\ Same(last.out,
                    Mul(Div(Mul(Add(Mul(IntNum(18), mean_speed),
                                    Ratio(179, 100)),
                                training.weight),
                            IntNum(1000)),
                        Mul(training.duration, IntNum(60))))
            /\ ExampleRUN => Same(last.out, Ratio(797805, 1000))

C7_Witness ==
    /\ Acted("get_spent_calories")
    /\ ExampleRUN
    /\ Same(last.out, Ratio(797805, 1000))

(***************************************************************************)
(* C8.  For a SportsWalking object with duration > 0 and height > 0,       *)
(* get_spent_calories returns (0.035 * weight + (mean_speed_m_s^2 /        *)
(* height_m) * 0.029 * weight) * (duration * 60) with mean_speed_m_s =     *)
(* mean_speed_kmh * 0.278 and height_m = height_cm / 100: the speed is     *)
(* squared before the division by the height, and the duration multiplies  *)
(* the whole sum.                                                          *)
(***************************************************************************)
C8_WalkingCalories ==
    (Acted("get_spent_calories") /\ training.cls = "SportsWalking"
         /\ Positive(training.duration) /\ Positive(training.height)) =>
        LET mean_speed_kmh ==
                Div(Div(Mul(training.action, Ratio(65, 100)), IntNum(1000)),
                    training.duration)
            mean_speed_m_s == Mul(mean_speed_kmh, Ratio(278, 1000))
            height_m       == Div(training.height, IntNum(100))
            squared        == Mul(mean_speed_m_s, mean_speed_m_s)
            first_term     == Mul(Ratio(35, 1000), training.weight)
            second_term    == Mul(Mul(Div(squared, height_m), Ratio(29, 1000)),
                                  training.weight)
            minutes        == Mul(training.duration, IntNum(60))
        IN  Same(last.out, Mul(Add(first_term, second_term), minutes))

\* a walking object whose duration is not 1, so that where the duration
\* multiplies shows
C8_Witness ==
    /\ Acted("get_spent_calories")
    /\ workout_type = "WLK"
    /\ data = <<IntNum(9000), Ratio(3, 2), IntNum(75), IntNum(180)>>
    /\ last.out.exc = ""

(***************************************************************************)
(* C9.  The calculators are pure and the object is immutable once built:   *)
(* after any sequence of calls of get_distance, get_mean_speed,            *)
(* get_spent_calories and show_training_info every attribute of the object *)
(* has the value it was constructed with, each call has the outcome of the *)
(* first call of that method, and two objects read_package builds from the *)
(* same code and data give the same results.                               *)
(***************************************************************************)
C9_Pure ==
    /\ training # NoTraining => training = constructed
    /\ last.rec # 0 =>
           IF watched = "show_training_info"
           THEN SameInfo(last.out, first.out)
           ELSE Same(last.out, first.out)

\* get_spent_calories called on the first object and again on a second one
\* built from the same package
C9_Witness ==
    /\ watched = "get_spent_calories"
    /\ first.rec = 1
    /\ last.rec = 2
    /\ last.out.exc = ""
    /\ training = constructed

(***************************************************************************)
(* C10.  show_training_info returns an InfoMessage whose type name names   *)
(* the object's class, whose duration is the object's and whose distance,  *)
(* speed and calories are what get_distance, get_mean_speed and            *)
(* get_spent_calories of that object return; get_message renders the five  *)
(* fields in the order type, duration, distance, mean speed, calories,     *)
(* each number rounded to exactly three decimal places.                    *)
(***************************************************************************)
C10_Message ==
    /\ Acted("show_training_info") /\ last.out.exc = "" =>
        /\ last.out.training_type = VariantOf(workout_type)
        /\ Same(last.out.duration, training.duration)
        /\ Same(last.out.distance, get_distance(training))
        /\ Same(last.out.speed, get_mean_speed(training))
        /\ Same(last.out.calories, get_spent_calories(training))
    /\ Len(message) # 0 => Renders(message, info)

\* the text of RUN [15000,1,75]:
\* Running; 1.000; 9.750; 9.750; 797.805
C10_Witness ==
    /\ ExampleRUN
    /\ Len(message) # 0
    /\ message[2] = "Running"
    /\ message[4] = [sign |-> "", int |-> <<1>>, frac |-> <<0, 0, 0>>]
    /\ message[6] = [sign |-> "", int |-> <<9>>, frac |-> <<7, 5, 0>>]
    /\ message[8] = [sign |-> "", int |-> <<9>>, frac |-> <<7, 5, 0>>]
    /\ message[10] = [sign |-> "", int |-> <<7, 9, 7>>, frac |-> <<8, 0, 5>>]

====
